---- MODULE Spec2Model ----
(***************************************************************************)
(* Session-lifecycle controller of the Android speech-recognition plugin   *)
(* (SpeechRecognitionPlugin.java).                                         *)
(*                                                                         *)
(* Threads.  Plugin methods start() and stop() run on the bridge's plugin  *)
(* thread and hold the controller lock for their whole body, so each is    *)
(* one atomic step.  Everything posted with webView.post / Handler.post    *)
(* runs on the main thread, in posting order (queue).  Engine callbacks    *)
(* are delivered on the main thread as well, at any moment between two     *)
(* posted tasks.  Code of a main-thread task or callback that runs outside *)
(* the lock is split where the plugin thread can observably interleave:    *)
(* mainPc holds the rest of the task that is running on the main thread.   *)
(*                                                                         *)
(* Events.  events[s] is the sequence of payloads passed to                *)
(* notifyListeners by code running for session s (for a callback: the      *)
(* listener's captured id), in emission order.                             *)
(***************************************************************************)
EXTENDS Integers, Sequences, FiniteSets, TLC

\* ------------------------------------------------------------------ bounds
\* What the environment does in a run: start() and stop() calls, engine callbacks
\* delivered, popup results returned, exceptions thrown by the platform.
MaxOps == 4

\* The longest match list given to buildMatchesWithUnstableText on its own.
MaxMatches == 2

\* ------------------------------------------------- android.speech constants
ERROR_NETWORK_TIMEOUT == 1
ERROR_NETWORK == 2
ERROR_AUDIO == 3
ERROR_SERVER == 4
ERROR_CLIENT == 5
ERROR_SPEECH_TIMEOUT == 6
ERROR_NO_MATCH == 7
ERROR_RECOGNIZER_BUSY == 8
ERROR_INSUFFICIENT_PERMISSIONS == 9

\* Native error codes the engine delivers in the lifecycle specification: the
\* two silence-class codes, one mapped fault and one unmapped code.
ErrorInputs == {ERROR_NO_MATCH, ERROR_SPEECH_TIMEOUT, ERROR_NETWORK, 13}

\* Absent payload field / null reference.
None == "none"
NullHandle == 0
NoCall == 0

VARIABLES
    state,              \* ListeningState
    sessionId,          \* long sessionId
    readyForNext,       \* boolean readyForNext
    listening,          \* boolean listening
    speechRecognizer,   \* the resource slot: index into recognizers, or NullHandle
    recognizers,        \* every SpeechRecognizer instance ever created
    queue,              \* main-thread tasks posted and not yet run (FIFO)
    mainPc,             \* <<>> or <<rest of the main-thread task that is running>>
    events,             \* per session id: the payloads passed to notifyListeners, in order
    calls,              \* per start() call: its completions (resolve / reject)
    popups,             \* start() calls waiting for the popup activity result
    previousPartialResults,  \* JSONArray previousPartialResults
    refused,            \* completions of the start() calls that failed a precondition
    lockOwner,          \* ReentrantLock lock: the thread that holds it, or NoThread
    holdCount,          \* ReentrantLock lock: its hold count
    threadPc,           \* per thread: the method or task it runs and the next instruction
    partialCalls,       \* per listener session id: the merged lists of the onPartialResults calls delivered
    mergeIn,            \* the Bundle last given to buildMatchesWithUnstableText
    mergeList,          \* the list of that Bundle as the call left it
    mergeOut,           \* the list the call returned
    nOps                \* what the environment has done so far (see MaxOps)

vars == <<state, sessionId, readyForNext, listening, speechRecognizer, recognizers,
          queue, mainPc, events, calls, popups, previousPartialResults, refused, nOps,
          lockOwner, holdCount, threadPc, partialCalls, mergeIn, mergeList, mergeOut>>

\* The argument and the result of a call of buildMatchesWithUnstableText taken
\* on its own (the merge specification).
mergeVars == <<mergeIn, mergeList, mergeOut>>

\* The lock and the instruction-level position of the threads.  The lifecycle
\* specification takes every critical section as one step and leaves these
\* alone; the lock specification runs the same code instruction by instruction.
lockVars == <<lockOwner, holdCount, threadPc>>

Threads == {"plugin", "main"}
NoThread == "none"
Idle == [op |-> "idle", at |-> 0, local |-> 0]

ListeningStates == {"IDLE", "STARTING", "STARTED", "STOPPING"}

\* --------------------------------------------------------------- payloads
\* One record shape for all events; a field the payload does not put is None
\* (sessionId: 0).  lsid is not part of the payload: it is the session id
\* captured by the code that emitted the event.
ListeningEvent(st, sid, reason, errorCode, status) ==
    [type |-> "listeningState", state |-> st, sessionId |-> sid, reason |-> reason,
     errorCode |-> errorCode, status |-> status, code |-> None, message |-> None,
     matches |-> <<>>, lsid |-> sid]

ErrorEvent(code, message, sid) ==
    [type |-> "error", state |-> None, sessionId |-> sid, reason |-> None,
     errorCode |-> None, status |-> None, code |-> code, message |-> message,
     matches |-> <<>>, lsid |-> sid]

ReadyEvent(sid) ==
    [type |-> "readyForNextSession", state |-> None, sessionId |-> sid, reason |-> None,
     errorCode |-> None, status |-> None, code |-> None, message |-> None,
     matches |-> <<>>, lsid |-> sid]

\* partialResults, segmentResults, endOfSegmentedSession: {matches}, no session id.
DataEvent(type, matches, lsid) ==
    [type |-> type, state |-> None, sessionId |-> 0, reason |-> None,
     errorCode |-> None, status |-> None, code |-> None, message |-> None,
     matches |-> matches, lsid |-> lsid]

\* ----------------------------------------------------------------- strings
\* A Java String is the sequence of its characters; a nullable reference is
\* Null or Some(value).
Null == <<>>
Some(x) == <<x>>
IsNull(n) == n = <<>>
Val(n) == n[1]

\* Character.isWhitespace as String.trim sees it: code point <= ' '.
IsBlankChar(c) == c = " "

RECURSIVE DropLeading(_)
DropLeading(str) ==
    IF str # <<>> /\ IsBlankChar(Head(str)) THEN DropLeading(Tail(str)) ELSE str

RECURSIVE DropTrailing(_)
DropTrailing(str) ==
    IF str # <<>> /\ IsBlankChar(str[Len(str)])
        THEN DropTrailing(SubSeq(str, 1, Len(str) - 1))
        ELSE str

\* String.trim
Trim(str) == DropTrailing(DropLeading(str))

\* String.endsWith
EndsWith(str, suffix) ==
    /\ Len(suffix) <= Len(str)
    /\ SubSeq(str, Len(str) - Len(suffix) + 1, Len(str)) = suffix

\* A results Bundle: RESULTS_RECOGNITION (a nullable list of nullable strings)
\* and android.speech.extra.UNSTABLE_TEXT (a nullable string).
Bundle(matches, unstable) == [matches |-> matches, unstable |-> unstable]

\* buildMatchesWithUnstableText that appends the fragment without looking
\* whether the first match already ends with it.
buildMatchesAlwaysAppending(resultsBundle) ==
    LET matches == resultsBundle.matches
        unstableText == resultsBundle.unstable
    IN  IF IsNull(matches) \/ Val(matches) = <<>> THEN matches
        ELSE IF IsNull(unstableText) THEN matches
        ELSE LET trimmedUnstable == Trim(Val(unstableText))
                 firstMatch == Val(matches)[1]
             IN  IF trimmedUnstable = <<>> THEN matches
                 ELSE IF IsNull(firstMatch) THEN matches
                 ELSE Some([Val(matches) EXCEPT ![1] =
                            Some(Trim(Val(firstMatch)) \o <<" ">> \o trimmedUnstable)])

\* buildMatchesWithUnstableText (lines 592-621); the result is a nullable list.
buildMatchesWithUnstableText(resultsBundle) ==
    LET matches == resultsBundle.matches
        unstableText == resultsBundle.unstable
    IN  IF IsNull(matches) \/ Val(matches) = <<>> THEN matches
        ELSE IF IsNull(unstableText) THEN matches
        ELSE LET trimmedUnstable == Trim(Val(unstableText))
                 firstMatch == Val(matches)[1]
             IN  IF trimmedUnstable = <<>> THEN matches
                 ELSE IF IsNull(firstMatch) THEN matches
                 ELSE LET trimmedFirstMatch == Trim(Val(firstMatch))
                      IN  IF \/ trimmedFirstMatch = trimmedUnstable
                             \/ EndsWith(trimmedFirstMatch, <<" ">> \o trimmedUnstable)
                          THEN matches
                          ELSE Some([Val(matches) EXCEPT ![1] =
                                  Some(trimmedFirstMatch \o <<" ">> \o trimmedUnstable)])

\* new JSArray(matches): a null list gives the empty array.
JSArray(matches) == IF IsNull(matches) THEN <<>> ELSE Val(matches)

\* The bundles the engine delivers in the lifecycle specification.
Hello == <<"h", "i">>
World == <<"y", "o">>
ResultBundles ==
    { Bundle(Some(<<Some(Hello)>>), Null),
      Bundle(Some(<<Some(Hello)>>), Some(World)) }

\* ------------------------------------------------------------ error mapper
\* getErrorCode whose default branch forgets the native code.
getErrorCodeUnnumbered(errorCode) ==
    CASE errorCode = ERROR_AUDIO -> "AUDIO"
      [] errorCode = ERROR_CLIENT -> "CLIENT"
      [] errorCode = ERROR_INSUFFICIENT_PERMISSIONS -> "INSUFFICIENT_PERMISSIONS"
      [] errorCode = ERROR_NETWORK -> "NETWORK"
      [] errorCode = ERROR_NETWORK_TIMEOUT -> "NETWORK_TIMEOUT"
      [] errorCode = ERROR_NO_MATCH -> "NO_MATCH"
      [] errorCode = ERROR_RECOGNIZER_BUSY -> "RECOGNIZER_BUSY"
      [] errorCode = ERROR_SERVER -> "SERVER"
      [] errorCode = ERROR_SPEECH_TIMEOUT -> "SPEECH_TIMEOUT"
      [] OTHER -> "UNKNOWN"

getErrorCode(errorCode) ==
    CASE errorCode = ERROR_AUDIO -> "AUDIO"
      [] errorCode = ERROR_CLIENT -> "CLIENT"
      [] errorCode = ERROR_INSUFFICIENT_PERMISSIONS -> "INSUFFICIENT_PERMISSIONS"
      [] errorCode = ERROR_NETWORK -> "NETWORK"
      [] errorCode = ERROR_NETWORK_TIMEOUT -> "NETWORK_TIMEOUT"
      [] errorCode = ERROR_NO_MATCH -> "NO_MATCH"
      [] errorCode = ERROR_RECOGNIZER_BUSY -> "RECOGNIZER_BUSY"
      [] errorCode = ERROR_SERVER -> "SERVER"
      [] errorCode = ERROR_SPEECH_TIMEOUT -> "SPEECH_TIMEOUT"
      [] OTHER -> "UNKNOWN_" \o ToString(errorCode)

getErrorText(errorCode) ==
    CASE errorCode = ERROR_AUDIO -> "Audio recording error"
      [] errorCode = ERROR_CLIENT -> "Client side error"
      [] errorCode = ERROR_INSUFFICIENT_PERMISSIONS -> "Insufficient permissions"
      [] errorCode = ERROR_NETWORK -> "Network error"
      [] errorCode = ERROR_NETWORK_TIMEOUT -> "Network timeout"
      [] errorCode = ERROR_NO_MATCH -> "No match"
      [] errorCode = ERROR_RECOGNIZER_BUSY -> "RecognitionService busy"
      [] errorCode = ERROR_SERVER -> "Error from server"
      [] errorCode = ERROR_SPEECH_TIMEOUT -> "No speech input"
      [] OTHER -> "Didn't understand, please try again."

\* onError, lines 522-528: the reason handed to finishSession.
ErrorReason(error) ==
    IF error = ERROR_NO_MATCH \/ error = ERROR_SPEECH_TIMEOUT THEN "silence" ELSE "error"

\* ------------------------------------------------------------------- tasks
LoadTask == [type |-> "load", sid |-> 0, partialResults |-> FALSE,
             reason |-> None, errorCode |-> None]
BeginTask(sid, partialResults) ==
    [type |-> "begin", sid |-> sid, partialResults |-> partialResults,
     reason |-> None, errorCode |-> None]
StopTask == [type |-> "stop", sid |-> 0, partialResults |-> FALSE,
             reason |-> None, errorCode |-> None]
\* A recreate task that does not capture finishSession's errorCode.
RecreateTaskDropsCode(sid, reason, errorCode) ==
    [type |-> "recreate", sid |-> sid, partialResults |-> FALSE,
     reason |-> reason, errorCode |-> None]

RecreateTask(sid, reason, errorCode) ==
    [type |-> "recreate", sid |-> sid, partialResults |-> FALSE,
     reason |-> reason, errorCode |-> errorCode]

\* A SpeechRecognizer instance with the listener installed on it.
\*   lsid: listenerSessionId; call: the PluginCall given with setCall (NoCall: null);
\*   started: startListening succeeded on it; live: created and not destroyed.
Recognizer(lsid, call, partialResults, started) ==
    [lsid |-> lsid, call |-> call, partialResults |-> partialResults,
     started |-> started, live |-> TRUE]

\* A destroyed instance: nothing of it is read any more.
DeadRecognizer ==
    [lsid |-> 0, call |-> NoCall, partialResults |-> FALSE, started |-> FALSE,
     live |-> FALSE]

\* speechRecognizer.cancel(); speechRecognizer.destroy() on instance h.
Destroyed(recs, h) ==
    IF h = NullHandle THEN recs ELSE [recs EXCEPT ![h] = DeadRecognizer]

\* notifyListeners(..., e)
Emit(evs, e) == [evs EXCEPT ![e.lsid] = Append(@, e)]

\* start() that forgets the increment.
NextSessionIdKept(id) == id

\* sessionId++ (start, line 96)
NextSessionId(id) == id + 1

\* The environment does n more things in this step.
Op(n) ==
    /\ nOps + n <= MaxOps
    /\ nOps' = nOps + n

Complete(cs, call, how) ==
    IF call = NoCall THEN cs ELSE [cs EXCEPT ![call] = Append(@, how)]

Init ==
    /\ state = "IDLE"
    /\ sessionId = 0
    /\ readyForNext = TRUE
    /\ listening = FALSE
    /\ speechRecognizer = NullHandle
    /\ recognizers = <<>>
    /\ queue = <<LoadTask>>
    /\ mainPc = <<>>
    /\ events = [s \in 0..MaxOps |-> <<>>]
    /\ calls = [c \in 1..MaxOps |-> <<>>]
    /\ popups = {}
    /\ previousPartialResults = <<>>
    /\ refused = <<>>
    /\ nOps = 0
    /\ lockOwner = NoThread
    /\ holdCount = 0
    /\ threadPc = [t \in Threads |-> Idle]
    /\ partialCalls = [s \in 0..MaxOps |-> <<>>]
    /\ mergeIn = Bundle(Null, Null)
    /\ mergeList = Null
    /\ mergeOut = Null

\* ------------------------------------------------------------ plugin thread
\* What start() leaves alone when it returns at a precondition check.
StartFrame ==
    <<state, sessionId, readyForNext, listening, speechRecognizer, recognizers,
      queue, mainPc, events, calls, popups, previousPartialResults>>

\* start() that checks its preconditions after opening the session.
StartRefusedAfterIncrement ==
    \E available \in BOOLEAN, granted \in BOOLEAN :
        /\ ~(available /\ granted)
        /\ Op(1)
        /\ sessionId' = sessionId + 1
        /\ state' = "STARTING"
        /\ refused' = Append(refused, IF ~available THEN "unavailable" ELSE "reject")
        /\ UNCHANGED <<lockVars, mergeVars, partialCalls, readyForNext, listening, speechRecognizer, recognizers,
                       queue, mainPc, events, calls, popups, previousPartialResults>>

\* start(), for a call that fails a precondition check (lines 81-91):
\* call.unavailable when the recognizer is not available, else call.reject when
\* the permission is not granted.
StartRefused ==
    \E available \in BOOLEAN, granted \in BOOLEAN :
        /\ ~(available /\ granted)
        /\ Op(1)
        /\ refused' = Append(refused, IF ~available THEN "unavailable" ELSE "reject")
        /\ UNCHANGED StartFrame
        /\ UNCHANGED <<lockVars, mergeVars, partialCalls>>

\* start() that accepts a call only when no session is open.
StartOnlyWhenIdle ==
    \E partialResults \in BOOLEAN, popup \in BOOLEAN :
        /\ state = "IDLE"
        /\ Op(1)
        /\ sessionId' = NextSessionId(sessionId)
        /\ state' = "STARTING"
        /\ events' = Emit(events,
                ListeningEvent("startingListening", sessionId', "userStart", None, None))
        /\ IF popup
              THEN /\ popups' = popups \cup {sessionId'}
                   /\ UNCHANGED queue
              ELSE /\ queue' = Append(queue, BeginTask(sessionId', partialResults))
                   /\ UNCHANGED popups
        /\ UNCHANGED <<lockVars, mergeVars, partialCalls, refused, readyForNext, listening,
                       speechRecognizer, recognizers, mainPc, calls,
                       previousPartialResults>>

\* start() that begins every session with an empty partial snapshot.
StartResetsSnapshot ==
    \E partialResults \in BOOLEAN, popup \in BOOLEAN :
        /\ Op(1)
        /\ sessionId' = NextSessionId(sessionId)
        /\ state' = "STARTING"
        /\ previousPartialResults' = <<>>
        /\ events' = Emit(events,
                ListeningEvent("startingListening", sessionId', "userStart", None, None))
        /\ IF popup
              THEN /\ popups' = popups \cup {sessionId'}
                   /\ UNCHANGED queue
              ELSE /\ queue' = Append(queue, BeginTask(sessionId', partialResults))
                   /\ UNCHANGED popups
        /\ UNCHANGED <<lockVars, mergeVars, partialCalls, refused, readyForNext, listening,
                       speechRecognizer, recognizers, mainPc, calls>>

\* start(), for a call that passes both precondition checks (lines 93-131).
\* The PluginCall of the start() that opens session n is call n.
Start ==
    \E partialResults \in BOOLEAN, popup \in BOOLEAN :
        /\ Op(1)
        /\ sessionId' = NextSessionId(sessionId)
        /\ state' = "STARTING"
        /\ events' = Emit(events,
                ListeningEvent("startingListening", sessionId', "userStart", None, None))
        /\ IF popup
              THEN /\ popups' = popups \cup {sessionId'}
                   /\ UNCHANGED queue
              ELSE /\ queue' = Append(queue, BeginTask(sessionId', partialResults))
                   /\ UNCHANGED popups
        /\ UNCHANGED <<lockVars, mergeVars, partialCalls, refused, readyForNext, listening, speechRecognizer, recognizers, mainPc,
                       calls,
                       previousPartialResults>>

\* stop() without the early return for IDLE.
StopWithoutIdleCheck ==
    /\ Op(1)
    /\ state' = "STOPPING"
    /\ events' = Emit(events,
            ListeningEvent("stoppingListening", sessionId, "userStop", None, None))
    /\ queue' = Append(queue, StopTask)
    /\ UNCHANGED <<lockVars, mergeVars, partialCalls, refused, sessionId, readyForNext, listening, speechRecognizer, recognizers,
                   mainPc, calls, popups, previousPartialResults>>

\* stop() that closes the session itself: besides the stop task it posts the
\* recreate task, which emits stopped.
StopForcesFinish ==
    /\ Op(1)
    /\ IF state = "IDLE"
          THEN UNCHANGED <<state, events, queue>>
          ELSE /\ state' = "STOPPING"
               /\ events' = Emit(events,
                       ListeningEvent("stoppingListening", sessionId, "userStop", None, None))
               /\ queue' = queue \o <<StopTask, RecreateTask(sessionId, "userStop", None)>>
    /\ UNCHANGED <<lockVars, mergeVars, partialCalls, refused, sessionId, readyForNext, listening, speechRecognizer, recognizers,
                   mainPc, calls, popups,
                   previousPartialResults>>

\* stop() (lines 133-162).
Stop ==
    /\ Op(1)
    /\ IF state = "IDLE"
          THEN UNCHANGED <<state, events, queue>>
          ELSE /\ state' = "STOPPING"
               /\ events' = Emit(events,
                       ListeningEvent("stoppingListening", sessionId, "userStop", None, None))
               /\ queue' = Append(queue, StopTask)
    /\ UNCHANGED <<lockVars, mergeVars, partialCalls, refused, sessionId, readyForNext, listening, speechRecognizer, recognizers,
                   mainPc, calls, popups,
                   previousPartialResults>>

\* -------------------------------------------------------------- main thread
Outcomes == {"ok", "throws"}
Throws(outcome) == IF outcome = "ok" THEN 0 ELSE 1

\* The begin task: everything returns, createSpeechRecognizer (line 283) throws,
\* or startListening (line 288) throws.
BeginOutcomes == {"ok", "createThrows", "throws"}


\* finishSession's guard with the comparison inverted.
IsStaleInverted(finishedSessionId, current) == finishedSessionId = current

\* finishSession's guard (line 361).
IsStale(finishedSessionId, current) == finishedSessionId # current

\* finishSession whose teardown lets the exception of cancel() escape: after the
\* stoppingListening event nothing more is done.
FinishSessionAbortsOnThrow(finishedSessionId, reason, errorCode, td, evs, recs, slot, q) ==
    IF IsStale(finishedSessionId, sessionId)
    THEN /\ events' = evs
         /\ recognizers' = recs
         /\ speechRecognizer' = slot
         /\ queue' = q
         /\ UNCHANGED <<state, listening, readyForNext>>
    ELSE /\ events' = IF state # "STOPPING"
                         THEN Emit(evs, ListeningEvent("stoppingListening",
                                        finishedSessionId, reason, errorCode, None))
                         ELSE evs
         /\ recognizers' = IF td = "ok" THEN Destroyed(recs, slot) ELSE recs
         /\ speechRecognizer' = IF td = "ok" THEN NullHandle ELSE slot
         /\ state' = IF td = "ok" THEN "IDLE" ELSE "STOPPING"
         /\ listening' = IF td = "ok" THEN FALSE ELSE listening
         /\ readyForNext' = IF td = "ok" THEN FALSE ELSE readyForNext
         /\ queue' = IF td = "ok"
                        THEN Append(q, RecreateTask(finishedSessionId, reason, errorCode))
                        ELSE q

\* finishSession (lines 358-438), up to and including the post of the recreate
\* task.  evs, recs, slot, q are events, recognizers, speechRecognizer and queue
\* as the caller has left them in this step.  td = "throws": cancel() throws
\* inside the try of lines 385-388, so destroy() is not reached and the instance
\* stays live; the slot is cleared all the same.
FinishSession(finishedSessionId, reason, errorCode, td, evs, recs, slot, q) ==
    IF IsStale(finishedSessionId, sessionId)
    THEN /\ events' = evs
         /\ recognizers' = recs
         /\ speechRecognizer' = slot
         /\ queue' = q
         /\ UNCHANGED <<state, listening, readyForNext>>
    ELSE /\ events' = IF state # "STOPPING"
                         THEN Emit(evs, ListeningEvent("stoppingListening",
                                        finishedSessionId, reason, errorCode, None))
                         ELSE evs
         /\ recognizers' = IF td = "ok" THEN Destroyed(recs, slot) ELSE recs
         /\ speechRecognizer' = NullHandle
         /\ state' = "IDLE"
         /\ listening' = FALSE
         /\ readyForNext' = FALSE
         /\ queue' = Append(q, RecreateTask(finishedSessionId, reason, errorCode))

\* What is left of the running main-thread task.
Rest(k, sid, reason, errorCode, call, how) ==
    [k |-> k, sid |-> sid, reason |-> reason, errorCode |-> errorCode,
     call |-> call, how |-> how]

MainIdle == mainPc = <<>>
HeadIs(type) == MainIdle /\ queue # <<>> /\ Head(queue).type = type

\* finishSession reaches cancel()/destroy() (lines 384-390) on an instance.
TearsDown(finishedSessionId, slot) ==
    ~IsStale(finishedSessionId, sessionId) /\ slot # NullHandle

\* The task posted by load() (lines 65-70).  The listener is built without a
\* session id; its listenerSessionId is modelled as 0.
RunLoad ==
    /\ HeadIs("load")
    /\ recognizers' = Append(recognizers, Recognizer(0, NoCall, FALSE, FALSE))
    /\ speechRecognizer' = Len(recognizers) + 1
    /\ queue' = Tail(queue)
    /\ UNCHANGED <<lockVars, mergeVars, partialCalls, refused, state, sessionId, readyForNext, listening, mainPc, events, calls,
                   popups, nOps,
                   previousPartialResults>>

\* A begin task that leaves the started event to onBeginningOfSpeech, as the
\* plugin did before: it starts the recognizer and emits nothing.
RunBeginWithoutStarted ==
    /\ HeadIs("begin")
    /\ \E outcome \in BeginOutcomes, td \in Outcomes :
        LET t == Head(queue)
            recs1 == Destroyed(recognizers, speechRecognizer)
            new == Len(recognizers) + 1
            created == outcome # "createThrows"
        IN  /\ (td = "throws") => (outcome = "throws" /\ TearsDown(t.sid, new))
            /\ Op(Throws(outcome) + Throws(td))
            /\ IF outcome = "ok"
               THEN /\ recognizers' = Append(recs1,
                           Recognizer(t.sid, t.sid, t.partialResults, TRUE))
                    /\ speechRecognizer' = new
                    /\ listening' = TRUE
                    /\ state' = "STARTED"
                    /\ calls' = IF t.partialResults
                                   THEN Complete(calls, t.sid, "resolve") ELSE calls
                    /\ queue' = Tail(queue)
                    /\ UNCHANGED <<readyForNext, events>>
               ELSE /\ FinishSession(t.sid, "error", "START_FAILED", td,
                           Emit(events, ErrorEvent("START_FAILED", "ex", t.sid)),
                           IF created
                              THEN Append(recs1,
                                     Recognizer(t.sid, t.sid, t.partialResults, FALSE))
                              ELSE recs1,
                           IF created THEN new ELSE NullHandle,
                           Tail(queue))
                    /\ calls' = Complete(calls, t.sid, "reject")
    /\ UNCHANGED <<lockVars, mergeVars, partialCalls, refused, sessionId, mainPc, popups,
                   previousPartialResults>>

\* The task posted by beginListening (lines 273-318).  outcome = "throws":
\* startListening (line 288) throws, after the old instance was destroyed and the
\* new one created; "createThrows": createSpeechRecognizer (line 283) throws,
\* after the old instance was destroyed and the slot cleared (280).
RunBegin ==
    /\ HeadIs("begin")
    /\ \E outcome \in BeginOutcomes, td \in Outcomes :
        LET t == Head(queue)
            recs1 == Destroyed(recognizers, speechRecognizer)
            new == Len(recognizers) + 1
            created == outcome # "createThrows"
        IN  /\ (td = "throws") => (outcome = "throws" /\ TearsDown(t.sid, new))
            /\ Op(Throws(outcome) + Throws(td))
            /\ IF outcome = "ok"
               THEN /\ recognizers' = Append(recs1,
                           Recognizer(t.sid, t.sid, t.partialResults, TRUE))
                    /\ speechRecognizer' = new
                    /\ listening' = TRUE
                    /\ state' = "STARTED"
                    /\ events' = Emit(events,
                           ListeningEvent("started", t.sid, "userStart", None, "started"))
                    /\ calls' = IF t.partialResults
                                   THEN Complete(calls, t.sid, "resolve") ELSE calls
                    /\ queue' = Tail(queue)
                    /\ UNCHANGED readyForNext
               ELSE /\ FinishSession(t.sid, "error", "START_FAILED", td,
                           Emit(events, ErrorEvent("START_FAILED", "ex", t.sid)),
                           IF created
                              THEN Append(recs1,
                                     Recognizer(t.sid, t.sid, t.partialResults, FALSE))
                              ELSE recs1,
                           IF created THEN new ELSE NullHandle,
                           Tail(queue))
                    /\ calls' = Complete(calls, t.sid, "reject")
    /\ UNCHANGED <<lockVars, mergeVars, partialCalls, refused, sessionId, mainPc, popups,
                   previousPartialResults>>

\* The task posted by stopListening (lines 325-338).
RunStop ==
    /\ HeadIs("stop")
    /\ listening' = FALSE
    /\ queue' = Tail(queue)
    /\ UNCHANGED <<lockVars, mergeVars, partialCalls, refused, state, sessionId, readyForNext, speechRecognizer, recognizers, mainPc,
                   events, calls, popups, nOps,
                   previousPartialResults>>

\* A recreate task that gives up when createSpeechRecognizer throws: it reports
\* RECREATE_FAILED and returns without the stopped event.
RunRecreateReturnsOnFailure ==
    /\ HeadIs("recreate")
    /\ \E outcome \in Outcomes :
        LET t == Head(queue)
        IN  /\ Op(Throws(outcome))
            /\ IF outcome = "ok"
                  THEN /\ recognizers' = Append(recognizers,
                              Recognizer(sessionId, NoCall, FALSE, FALSE))
                       /\ speechRecognizer' = Len(recognizers) + 1
                       /\ readyForNext' = TRUE
                       /\ events' = Emit(events, ReadyEvent(t.sid))
                       /\ mainPc' = <<Rest("stopped", t.sid, t.reason, t.errorCode,
                                           NoCall, None)>>
                  ELSE /\ events' = Emit(events,
                              ErrorEvent("RECREATE_FAILED", "ex", t.sid))
                       /\ UNCHANGED <<recognizers, speechRecognizer, readyForNext, mainPc>>
            /\ queue' = Tail(queue)
    /\ UNCHANGED <<lockVars, mergeVars, partialCalls, refused, state, sessionId, listening, calls, popups,
                   previousPartialResults>>

\* The recreate task posted by finishSession, lines 400-424: create, publish,
\* readyForNext, readyForNextSession; or RECREATE_FAILED when
\* createSpeechRecognizer throws.
RunRecreate ==
    /\ HeadIs("recreate")
    /\ \E outcome \in Outcomes :
        LET t == Head(queue)
        IN  /\ Op(Throws(outcome))
            /\ IF outcome = "ok"
                  THEN /\ recognizers' = Append(recognizers,
                              Recognizer(sessionId, NoCall, FALSE, FALSE))
                       /\ speechRecognizer' = Len(recognizers) + 1
                       /\ readyForNext' = TRUE
                       /\ events' = Emit(events, ReadyEvent(t.sid))
                  ELSE /\ events' = Emit(events,
                              ErrorEvent("RECREATE_FAILED", "ex", t.sid))
                       /\ UNCHANGED <<recognizers, speechRecognizer, readyForNext>>
            /\ mainPc' = <<Rest("stopped", t.sid, t.reason, t.errorCode, NoCall, None)>>
            /\ queue' = Tail(queue)
    /\ UNCHANGED <<lockVars, mergeVars, partialCalls, refused, state, sessionId, listening, calls, popups,
                   previousPartialResults>>

\* A stopped event that says userStop when the user had asked for the stop.
EmitStoppedAsUserStop ==
    /\ mainPc # <<>> /\ mainPc[1].k = "stopped"
    /\ LET sid == mainPc[1].sid
           asked == \E i \in 1..Len(events[sid]) : events[sid][i].reason = "userStop"
       IN  events' = Emit(events, ListeningEvent("stopped", sid,
                            IF asked THEN "userStop" ELSE mainPc[1].reason,
                            mainPc[1].errorCode, "stopped"))
    /\ mainPc' = <<>>
    /\ UNCHANGED <<lockVars, mergeVars, partialCalls, refused, state, sessionId, readyForNext,
                   listening, speechRecognizer, recognizers, queue, calls, popups, nOps,
                   previousPartialResults>>

\* The recreate task, lines 426-436: the stopped event.
EmitStopped ==
    /\ mainPc # <<>> /\ mainPc[1].k = "stopped"
    /\ events' = Emit(events, ListeningEvent("stopped", mainPc[1].sid,
                            mainPc[1].reason, mainPc[1].errorCode, "stopped"))
    /\ mainPc' = <<>>
    /\ UNCHANGED <<lockVars, mergeVars, partialCalls, refused, state, sessionId, readyForNext, listening, speechRecognizer,
                   recognizers, queue, calls, popups, nOps,
                   previousPartialResults>>

\* ---------------------------------------------------------- engine callbacks
\* The instances the engine can call back: started and not destroyed.
Delivering == {r \in 1..Len(recognizers) : recognizers[r].live /\ recognizers[r].started}

CanDeliver(r) == MainIdle /\ r \in Delivering

\* onBeginningOfSpeech that still emits "started", as it did before the started
\* event moved to the start path.
OnSilentCallbackEmitsStarted ==
    \E r \in 1..Len(recognizers) :
        /\ CanDeliver(r)
        /\ Op(1)
        /\ events' = Emit(events, ListeningEvent("started", recognizers[r].lsid,
                                                 "userStart", None, "started"))
        /\ UNCHANGED <<lockVars, mergeVars, partialCalls, refused, state, sessionId, readyForNext, listening, speechRecognizer,
                       recognizers, queue, mainPc, calls, popups,
                       previousPartialResults>>

\* onReadyForSpeech, onBeginningOfSpeech, onEndOfSpeech, onRmsChanged,
\* onBufferReceived, onEvent (lines 483-503, 644): empty bodies or logging only.
OnSilentCallback ==
    \E r \in 1..Len(recognizers) :
        /\ CanDeliver(r)
        /\ Op(1)
        /\ UNCHANGED <<lockVars, mergeVars, partialCalls, refused, state, sessionId, readyForNext, listening, speechRecognizer,
                       recognizers, queue, mainPc, events, calls, popups,
                       previousPartialResults>>

\* onError that reads the sessionId field instead of the id its listener captured.
OnErrorAtReadsField(r, error) ==
        /\ CanDeliver(r)
        /\ Op(1)
        /\ LET l == recognizers[r]
           IN  /\ events' = Emit(events,
                      ErrorEvent(getErrorCode(error), getErrorText(error), sessionId))
               /\ mainPc' = <<Rest("finish", sessionId, ErrorReason(error),
                                   getErrorCode(error),
                                   IF ~l.partialResults THEN l.call ELSE NoCall,
                                   "reject")>>
        /\ UNCHANGED <<lockVars, mergeVars, partialCalls, refused, state, sessionId, readyForNext, listening, speechRecognizer,
                       recognizers, queue, calls, popups,
                       previousPartialResults>>

\* onError, lines 506-520: the error event.
OnErrorAt(r, error) ==
        /\ CanDeliver(r)
        /\ Op(1)
        /\ LET l == recognizers[r]
           IN  /\ events' = Emit(events,
                      ErrorEvent(getErrorCode(error), getErrorText(error), l.lsid))
               /\ mainPc' = <<Rest("finish", l.lsid, ErrorReason(error),
                                   getErrorCode(error),
                                   IF ~l.partialResults THEN l.call ELSE NoCall,
                                   "reject")>>
        /\ UNCHANGED <<lockVars, mergeVars, partialCalls, refused, state, sessionId, readyForNext, listening, speechRecognizer,
                       recognizers, queue, calls, popups,
                       previousPartialResults>>

OnError == \E r \in 1..Len(recognizers), error \in ErrorInputs : OnErrorAt(r, error)

\* onResults, lines 539-558 (and 563-566 when building the result throws).
OnResultsAt(r, results, outcome) ==
        /\ CanDeliver(r)
        /\ Op(1 + Throws(outcome))
        /\ LET l == recognizers[r]
           IN  IF outcome = "ok"
               THEN /\ calls' = IF ~l.partialResults
                                   THEN Complete(calls, l.call, "resolve") ELSE calls
                    /\ events' = IF l.call # NoCall /\ l.partialResults
                                    THEN Emit(events, DataEvent("partialResults",
                                            JSArray(buildMatchesWithUnstableText(results)),
                                            l.lsid))
                                    ELSE events
                    /\ mainPc' = <<Rest("finish", l.lsid, "results", None, NoCall, None)>>
               ELSE /\ calls' = Complete(calls, l.call, "resolve")
                    /\ UNCHANGED events
                    /\ mainPc' = <<Rest("finish", l.lsid, "error",
                                        "RESULTS_PROCESSING_FAILED", NoCall, None)>>
        /\ UNCHANGED <<lockVars, mergeVars, partialCalls, refused, state, sessionId, readyForNext, listening, speechRecognizer,
                       recognizers, queue, popups,
                       previousPartialResults>>

OnResults ==
    \E r \in 1..Len(recognizers), results \in ResultBundles, outcome \in Outcomes :
        OnResultsAt(r, results, outcome)

\* onPartialResults without the comparison with the last emitted list.
OnPartialResultsAtAlwaysEmits(r, partialResultsBundle) ==
    /\ CanDeliver(r)
    /\ Op(1)
    /\ partialCalls' = [partialCalls EXCEPT ![recognizers[r].lsid] =
            Append(@, JSArray(buildMatchesWithUnstableText(partialResultsBundle)))]
    /\ LET matches == buildMatchesWithUnstableText(partialResultsBundle)
       IN  IF IsNull(matches) \/ Val(matches) = <<>>
              THEN UNCHANGED <<previousPartialResults, events>>
              ELSE /\ previousPartialResults' = JSArray(matches)
                   /\ events' = Emit(events, DataEvent("partialResults",
                                      JSArray(matches), recognizers[r].lsid))
    /\ UNCHANGED <<lockVars, mergeVars, refused, state, sessionId, readyForNext, listening, speechRecognizer,
                   recognizers, queue, mainPc, calls, popups>>

\* onPartialResults (lines 571-590).
OnPartialResultsAt(r, partialResultsBundle) ==
    /\ CanDeliver(r)
    /\ Op(1)
    /\ partialCalls' = [partialCalls EXCEPT ![recognizers[r].lsid] =
            Append(@, JSArray(buildMatchesWithUnstableText(partialResultsBundle)))]
    /\ LET matches == buildMatchesWithUnstableText(partialResultsBundle)
       IN  IF IsNull(matches) \/ Val(matches) = <<>>
              THEN UNCHANGED <<previousPartialResults, events>>
              ELSE IF previousPartialResults # JSArray(matches)
                      THEN /\ previousPartialResults' = JSArray(matches)
                           /\ events' = Emit(events, DataEvent("partialResults",
                                              JSArray(matches), recognizers[r].lsid))
                      ELSE UNCHANGED <<previousPartialResults, events>>
    /\ UNCHANGED <<lockVars, mergeVars, refused, state, sessionId, readyForNext, listening, speechRecognizer,
                   recognizers, queue, mainPc, calls, popups>>

\* The bundles handed to onPartialResults: also a null and an empty list.
PartialBundles ==
    ResultBundles \cup {Bundle(Null, Null), Bundle(Some(<<>>), Some(World))}

OnPartialResults ==
    \E r \in 1..Len(recognizers), b \in PartialBundles : OnPartialResultsAt(r, b)

\* onSegmentResults (lines 623-635).
OnSegmentResultsAt(r, results) ==
    /\ CanDeliver(r)
    /\ Op(1)
    /\ events' = IF IsNull(results.matches) THEN events
                 ELSE Emit(events, DataEvent("segmentResults", JSArray(results.matches),
                                             recognizers[r].lsid))
    /\ UNCHANGED <<lockVars, mergeVars, partialCalls, refused, state, sessionId, readyForNext, listening, speechRecognizer,
                   recognizers, queue, mainPc, calls, popups, previousPartialResults>>

\* The bundles handed to onSegmentResults: getStringArrayList may return null.
SegmentBundles == ResultBundles \cup {Bundle(Null, Null)}

OnSegmentResults ==
    \E r \in 1..Len(recognizers), b \in SegmentBundles : OnSegmentResultsAt(r, b)

\* onEndOfSegmentedSession that closes the session as onResults does.
OnEndOfSegmentedSessionFinishes ==
    \E r \in 1..Len(recognizers) :
        /\ CanDeliver(r)
        /\ Op(1)
        /\ events' = Emit(events, DataEvent("endOfSegmentedSession", <<>>,
                                            recognizers[r].lsid))
        /\ mainPc' = <<Rest("finish", recognizers[r].lsid, "results", None, NoCall, None)>>
        /\ UNCHANGED <<lockVars, mergeVars, partialCalls, refused, state, sessionId, readyForNext, listening, speechRecognizer,
                       recognizers, queue, calls, popups,
                       previousPartialResults>>

\* onEndOfSegmentedSession (lines 637-641).
OnEndOfSegmentedSession ==
    \E r \in 1..Len(recognizers) :
        /\ CanDeliver(r)
        /\ Op(1)
        /\ events' = Emit(events, DataEvent("endOfSegmentedSession", <<>>,
                                            recognizers[r].lsid))
        /\ UNCHANGED <<lockVars, mergeVars, partialCalls, refused, state, sessionId, readyForNext, listening, speechRecognizer,
                       recognizers, queue, mainPc, calls, popups,
                       previousPartialResults>>

\* The finishSession call that ends onError (lines 531-535) and onResults
\* (lines 561, 567), with onError's call.reject after it.
FinishStep ==
    /\ mainPc # <<>> /\ mainPc[1].k = "finish"
    /\ \E td \in Outcomes :
        /\ (td = "throws") => TearsDown(mainPc[1].sid, speechRecognizer)
        /\ Op(Throws(td))
        /\ FinishSession(mainPc[1].sid, mainPc[1].reason, mainPc[1].errorCode, td,
                         events, recognizers, speechRecognizer, queue)
    /\ calls' = Complete(calls, mainPc[1].call, mainPc[1].how)
    /\ mainPc' = <<>>
    /\ UNCHANGED <<lockVars, mergeVars, partialCalls, refused, sessionId, popups,
                   previousPartialResults>>

\* isListening() (lines 184-187): the value it resolves with.
isListening == listening

\* listeningResult (lines 215-238): the popup activity returns.
ActivityResult ==
    \E c \in popups, resultOk \in BOOLEAN :
        /\ MainIdle
        /\ Op(1)
        /\ calls' = Complete(calls, c, IF resultOk THEN "resolve" ELSE "reject")
        /\ listening' = FALSE
        /\ popups' = popups \ {c}
        /\ UNCHANGED <<lockVars, mergeVars, partialCalls, refused, state, sessionId, readyForNext, speechRecognizer, recognizers,
                       queue, mainPc, events,
                       previousPartialResults>>

Next ==
    \/ Start
    \/ StartRefused
    \/ Stop
    \/ RunLoad
    \/ RunBegin
    \/ RunStop
    \/ RunRecreate
    \/ EmitStopped
    \/ OnSilentCallback
    \/ OnError
    \/ OnResults
    \/ OnPartialResults
    \/ OnSegmentResults
    \/ OnEndOfSegmentedSession
    \/ FinishStep
    \/ ActivityResult

Spec == Init /\ [][Next]_vars

\* ------------------------------------------------------- the lock, by instruction
\* The methods and tasks of the plugin as instruction sequences: what each does
\* to the lock and to the guarded fields, in source order.  line is the source
\* line of the instruction.
Lck(line) == [k |-> "lock", f |-> None, v |-> None, line |-> line]
Unl(line) == [k |-> "unlock", f |-> None, v |-> None, line |-> line]
Wr(f, v, line) == [k |-> "write", f |-> f, v |-> v, line |-> line]
Rd(f, line) == [k |-> "read", f |-> f, v |-> None, line |-> line]
Em(line) == [k |-> "emit", f |-> None, v |-> None, line |-> line]
Po(line) == [k |-> "post", f |-> None, v |-> None, line |-> line]

\* start() with the lock taken only after the event is emitted.
StartCodeLocksLate ==
    << Wr("sessionId", "++", 96), Wr("state", "STARTING", 97),
       Rd("sessionId", 98), Em(105), Lck(93), Po(273), Unl(129) >>

\* start(), lines 93-131 (beginListening posts or starts the popup activity).
StartCode ==
    << Lck(93), Wr("sessionId", "++", 96), Wr("state", "STARTING", 97),
       Rd("sessionId", 98), Em(105), Po(273), Unl(129) >>

\* stop(), lines 137-161.
StopCode ==
    << Lck(137), Rd("state", 139), Wr("state", "STOPPING", 145), Rd("sessionId", 146),
       Em(153), Po(325), Unl(160) >>

\* The task posted by load(), lines 65-70.
LoadCode == << Wr("speechRecognizer", "new", 66) >>

\* finishSession, lines 358-438: the call that passes the guard at 361, and the
\* stale call, which returns there.
FinishCode ==
    << Lck(359), Rd("sessionId", 361), Rd("state", 369), Wr("state", "STOPPING", 370),
       Em(379), Rd("speechRecognizer", 384), Wr("speechRecognizer", "null", 389),
       Wr("state", "IDLE", 392), Wr("listening", "false", 393),
       Wr("readyForNext", "false", 394), Unl(396), Po(400) >>
FinishStaleCode == << Lck(359), Rd("sessionId", 361), Unl(396) >>
FinishCodes == {FinishCode, FinishStaleCode}

\* The task posted by beginListening, lines 273-318: startListening succeeds.
BeginCode ==
    << Lck(275), Rd("speechRecognizer", 277), Wr("speechRecognizer", "null", 280),
       Wr("speechRecognizer", "new", 283), Wr("listening", "true", 289),
       Wr("state", "STARTED", 293), Em(299), Unl(316) >>

\* The same task when startListening throws: the catch calls finishSession
\* while the task still holds the lock.
BeginFailsCode(finish) ==
    << Lck(275), Rd("speechRecognizer", 277), Wr("speechRecognizer", "null", 280),
       Wr("speechRecognizer", "new", 283), Em(311) >> \o finish \o << Unl(316) >>

\* The task posted by stopListening, lines 325-338.
StopTaskCode ==
    << Lck(327), Rd("listening", 328), Wr("listening", "false", 331), Unl(336) >>

\* onError (505-536) and onResults (538-569): the captured id is read under
\* the lock, the event emitted, then finishSession called.
OnErrorCode(finish) == << Lck(507), Unl(509), Em(520) >> \o finish
OnResultsCode(finish) == << Lck(540), Unl(542), Em(556) >> \o finish

\* The recreate task, lines 400-437.
RecreateCode ==
    << Wr("speechRecognizer", "new", 402), Rd("sessionId", 403), Lck(406),
       Wr("readyForNext", "true", 408), Unl(410), Em(415), Em(435) >>

\* listeningResult, lines 235-237.
ListeningResultCode == << Lck(235), Wr("listening", "false", 236), Unl(237) >>

\* What a thread can run.
CodeOf(t) ==
    IF t = "plugin"
    THEN {StartCode, StopCode}
    ELSE {LoadCode, BeginCode, StopTaskCode, RecreateCode, ListeningResultCode}
            \cup {BeginFailsCode(f) : f \in FinishCodes}
            \cup {OnErrorCode(f) : f \in FinishCodes}
            \cup {OnResultsCode(f) : f \in FinishCodes}

Busy(t) == threadPc[t].at # 0
Instr(t) == threadPc[t].op[threadPc[t].at]

\* ReentrantLock.lock() of a second owner blocks, as a plain mutex would.
CanAcquireNotReentrant(t) == lockOwner = NoThread

\* ReentrantLock.lock() returns at once for a free lock and for its owner.
CanAcquire(t) == lockOwner \in {NoThread, t}

\* The instructions the branch after instruction i jumps over: stop() returns
\* at 139-143 when the state is IDLE, finishSession leaves out 370-379 when
\* the state is already STOPPING.
Skipped(i) ==
    IF i.k = "read" /\ i.f = "state" /\ i.line = 139 /\ state = "IDLE" THEN 4
    ELSE IF i.k = "read" /\ i.f = "state" /\ i.line = 369 /\ state = "STOPPING" THEN 2
    ELSE 0

\* Thread t has executed its instruction; local is what it last read of sessionId.
Advance(t, local) ==
    threadPc' = [threadPc EXCEPT ![t] =
                    IF @.at + Skipped(@.op[@.at]) >= Len(@.op) THEN Idle
                    ELSE [op |-> @.op, at |-> @.at + Skipped(@.op[@.at]) + 1,
                          local |-> local]]

\* What the instruction-level steps leave alone.
LockFrame ==
    <<readyForNext, listening, speechRecognizer, recognizers, queue, mainPc, events,
      calls, popups, previousPartialResults, refused, partialCalls, mergeVars>>

\* A thread begins a method, task or callback.
LockBegin ==
    \E t \in Threads : \E code \in CodeOf(t) :
        /\ ~Busy(t)
        /\ Op(1)
        /\ threadPc' = [threadPc EXCEPT ![t] = [op |-> code, at |-> 1, local |-> 0]]
        /\ UNCHANGED <<LockFrame, state, sessionId, lockOwner, holdCount>>

\* lock.lock()
LockAcquire ==
    \E t \in Threads :
        /\ Busy(t) /\ Instr(t).k = "lock"
        /\ CanAcquire(t)
        /\ lockOwner' = t
        /\ holdCount' = holdCount + 1
        /\ Advance(t, threadPc[t].local)
        /\ UNCHANGED <<LockFrame, state, sessionId, nOps>>

\* lock.unlock()
LockRelease ==
    \E t \in Threads :
        /\ Busy(t) /\ Instr(t).k = "unlock"
        /\ lockOwner = t
        /\ holdCount' = holdCount - 1
        /\ lockOwner' = IF holdCount = 1 THEN NoThread ELSE t
        /\ Advance(t, threadPc[t].local)
        /\ UNCHANGED <<LockFrame, state, sessionId, nOps>>

\* Any other instruction: the writes of state and sessionId take effect.
LockExec ==
    \E t \in Threads :
        /\ Busy(t) /\ Instr(t).k \notin {"lock", "unlock"}
        /\ LET i == Instr(t)
           IN  /\ state' = IF i.k = "write" /\ i.f = "state" THEN i.v ELSE state
               /\ sessionId' = IF i.k = "write" /\ i.f = "sessionId"
                                  THEN NextSessionId(sessionId) ELSE sessionId
               /\ Advance(t, IF i.k = "read" /\ i.f = "sessionId"
                                THEN sessionId ELSE threadPc[t].local)
        /\ UNCHANGED <<LockFrame, lockOwner, holdCount, nOps>>

LockNext == LockBegin \/ LockAcquire \/ LockRelease \/ LockExec

LockSpec == Init /\ [][LockNext]_vars

\* ------------------------------------------------------- the merge, on its own
\* Strings given as a match or as the unstable text.
MergeStrings ==
    { <<>>, <<" ">>, <<"b">>, <<"a", "b">>, <<"a", " ", "b">>, <<" ", "b", " ">> }
NullableStrings == {Null} \cup {Some(str) : str \in MergeStrings}

\* The bundles: no list, or a list of at most MaxMatches nullable strings, with
\* or without unstable text.
MergeLists ==
    {Null} \cup {Some(l) : l \in UNION {[1..n -> NullableStrings] : n \in 0..MaxMatches}}
MergeInputs == {Bundle(m, u) : m \in MergeLists, u \in NullableStrings}

\* One call of buildMatchesWithUnstableText.  The method writes only to the copy
\* it makes at line 617, so the list of the bundle is afterwards what it was.
CallMerge ==
    \E b \in MergeInputs :
        /\ mergeIn' = b
        /\ mergeList' = b.matches
        /\ mergeOut' = buildMatchesWithUnstableText(b)
        /\ UNCHANGED <<state, sessionId, readyForNext, listening, speechRecognizer,
                       recognizers, queue, mainPc, events, calls, popups,
                       previousPartialResults, refused, nOps, lockVars, partialCalls>>

MergeNext == CallMerge

MergeSpec == Init /\ [][MergeNext]_vars

\* ------------------------------------------------------- reading the events
Sessions == 1..MaxOps

\* What an event is: the state of a listeningState event, the type of another.
Kind(e) == IF e.type = "listeningState" THEN e.state ELSE e.type

\* The kinds of the events of session s, in emission order.
Kinds(s) == [i \in 1..Len(events[s]) |-> Kind(events[s][i])]

\* The positions of the events of kind k of session s.
At(s, k) == {i \in 1..Len(events[s]) : Kind(events[s][i]) = k}

Emitted(s, k) == At(s, k) # {}

\* Every event of kind a of session s comes before every event of kind b.
Before(s, a, b) == \A i \in At(s, a), j \in At(s, b) : i < j

IsPrefix(p, q) == Len(p) <= Len(q) /\ \A i \in 1..Len(p) : p[i] = q[i]

\* ------------------------------------------------------------------ claims

\* C1: for every session id S at most one listeningState event with state
\* "stopped" and sessionId S is ever emitted, also when a result callback and an
\* error callback are both delivered for S.
C1_AtMostOneStopped ==
    \A s \in Sessions : Cardinality(At(s, "stopped")) <= 1

\* A stopped event of session s can still come: s is the current session, so
\* finishSession(s) passes its guard, or the recreate task that finishSession(s)
\* posted is waiting or running.  The session id never decreases and only that
\* task emits stopped(s), so a session for which this is false gets no stopped
\* event any more.
CanStillStop(s) ==
    \/ s = sessionId
    \/ \E i \in 1..Len(queue) : queue[i].type = "recreate" /\ queue[i].sid = s
    \/ mainPc # <<>> /\ mainPc[1].k = "stopped" /\ mainPc[1].sid = s

\* C2: every session that reaches STARTING is eventually followed by a stopped
\* event with its session id.  As a property of the states a run passes through:
\* a started session whose stopped event can no longer come has it already.
C2_EveryStartedSessionStops ==
    \A s \in Sessions :
        Emitted(s, "startingListening") => Emitted(s, "stopped") \/ CanStillStop(s)

\* stop() was accepted while s was the current session.
UserStopped(s) ==
    \E i \in At(s, "stoppingListening") : events[s][i].reason = "userStop"

\* Nothing is posted to the main thread and nothing runs on it.
MainQuiescent == queue = <<>> /\ mainPc = <<>>

\* C3: after stop() in a state other than IDLE, the controller itself invokes
\* finish-session even if the engine never calls back.  As a property of states:
\* while the stopped session is current and has no stopped event, the controller
\* has work outstanding on the main thread that will finish it.
C3_StopForcesFinish ==
    \A s \in Sessions :
        UserStopped(s) /\ s = sessionId => Emitted(s, "stopped") \/ ~MainQuiescent

\* An error, final-result or partial-result callback from a router whose
\* captured session id is older than the current one.
StaleCallback ==
    \E r \in 1..Len(recognizers) :
        /\ recognizers[r].lsid < sessionId
        /\ \/ \E error \in ErrorInputs : OnErrorAt(r, error)
           \/ \E b \in ResultBundles, o \in Outcomes : OnResultsAt(r, b, o)
           \/ \E b \in ResultBundles : OnPartialResultsAt(r, b)

\* C4: a callback from a superseded router emits no event, completes no start()
\* call and changes neither state, session id, readiness nor the resource handle.
C4_StaleCallbackChangesNothing ==
    [][StaleCallback =>
        UNCHANGED <<events, calls, state, sessionId, readyForNext, speechRecognizer>>]_vars

\* C5: the session id starts at 0, every accepted start() adds exactly 1 and
\* nothing else changes it; startingListening(s) is emitted exactly when the id
\* becomes s, so the startingListening events carry 1..N in increasing order,
\* each id once.
C5_SessionIds ==
    /\ sessionId = 0
    /\ [][/\ Start => sessionId' = sessionId + 1
          /\ sessionId' # sessionId => Start /\ sessionId' = sessionId + 1
          /\ \A s \in Sessions :
                At(s, "startingListening")' # At(s, "startingListening")
                    => s = sessionId' /\ sessionId' = sessionId + 1]_vars
    /\ [](\A s \in Sessions :
            /\ Cardinality(At(s, "startingListening")) = IF s <= sessionId THEN 1 ELSE 0
            /\ \A i \in At(s, "startingListening") : events[s][i].sessionId = s)

\* Three sessions opened, with ids 1, 2, 3.
C5_Witness ==
    sessionId = 3 /\ \A s \in 1..3 : Emitted(s, "startingListening")

\* The step is a successful native start for session s: a new instance whose
\* listener captured s is started.
NativeStartOk(s) ==
    /\ Len(recognizers') = Len(recognizers) + 1
    /\ recognizers'[Len(recognizers')].started
    /\ recognizers'[Len(recognizers')].lsid = s

\* C6: a session whose native start succeeds gets exactly one started event
\* {started, sessionId, userStart, status started}, emitted by the start path in
\* the step of the native start; no engine callback emits it, and
\* onReadyForSpeech / onBeginningOfSpeech emit nothing.
C6_StartedOnce ==
    /\ [][\A s \in Sessions :
            /\ NativeStartOk(s) =>
                 events'[s] = Append(events[s],
                     ListeningEvent("started", s, "userStart", None, "started"))
            /\ At(s, "started")' # At(s, "started") => NativeStartOk(s) /\ RunBegin]_vars
    /\ [][OnSilentCallback => events' = events]_vars
    /\ [](\A s \in Sessions : Cardinality(At(s, "started")) <= 1)

\* Session 1 is started, the engine has called back without effect, and the
\* one started event is all that followed startingListening.
C6_Witness ==
    /\ state = "STARTED" /\ sessionId = 1 /\ nOps = 2 /\ MainQuiescent
    /\ Kinds(1) = <<"startingListening", "started">>
    /\ speechRecognizer \in Delivering

LifecycleOrder ==
    <<"startingListening", "started", "stoppingListening", "readyForNextSession",
      "stopped">>

\* C7: the lifecycle events of a session occur in the order startingListening,
\* started, stoppingListening, readyForNextSession, stopped.
C7_LifecycleOrder ==
    \A s \in Sessions :
        \A a, b \in 1..Len(LifecycleOrder) :
            a < b => Before(s, LifecycleOrder[a], LifecycleOrder[b])

\* The symbolic code and the reason the claim gives for the native codes the
\* engine delivers here.
C8_Expected ==
    (ERROR_NO_MATCH :> <<"NO_MATCH", "silence">>)
        @@ (ERROR_SPEECH_TIMEOUT :> <<"SPEECH_TIMEOUT", "silence">>)
        @@ (ERROR_NETWORK :> <<"NETWORK", "error">>)
        @@ (13 :> <<"UNKNOWN_13", "error">>)

SilenceCodes == {"NO_MATCH", "SPEECH_TIMEOUT"}

\* Session s started, its first engine callback was a silence-class error, and
\* no stop() reached it.
SilenceScenario(s) ==
    /\ Len(events[s]) >= 3
    /\ SubSeq(Kinds(s), 1, 3) = <<"startingListening", "started", "error">>
    /\ events[s][3].code \in SilenceCodes
    /\ ~UserStopped(s)

SilenceSequence(s, code, message) ==
    << ListeningEvent("startingListening", s, "userStart", None, None),
       ListeningEvent("started", s, "userStart", None, "started"),
       ErrorEvent(code, message, s),
       ListeningEvent("stoppingListening", s, "silence", code, None),
       ReadyEvent(s),
       ListeningEvent("stopped", s, "silence", code, "stopped") >>

\* C9: in the silence scenario the events of the session are exactly
\* startingListening, started, error, stoppingListening(silence, code),
\* readyForNextSession, stopped(silence, code): never anything else, and all of
\* them once no more can come.
C9_SilenceSequence ==
    \A s \in Sessions :
        SilenceScenario(s) =>
            LET expected == SilenceSequence(s, events[s][3].code, events[s][3].message)
            IN  /\ IsPrefix(events[s], expected)
                /\ ~CanStillStop(s) => events[s] = expected

\* The positions of the stoppingListening events that stop() emitted for s.
UserStops(s) == {i \in At(s, "stoppingListening") : events[s][i].reason = "userStop"}

\* One stop() reached session s, before any engine callback had emitted anything.
QuickStop(s) ==
    /\ Cardinality(UserStops(s)) = 1
    /\ \A i \in UserStops(s) :
            \A j \in 1..(i - 1) : Kinds(s)[j] \in {"startingListening", "started"}

\* C10: a session stopped right after start() emits startingListening, started,
\* stoppingListening(userStop) in that order, then one readyForNextSession /
\* stopped pair at most, and nothing after its stopped event.
C10_QuickStartStop ==
    \A s \in Sessions :
        QuickStop(s) =>
            /\ Before(s, "startingListening", "started")
            /\ Before(s, "started", "stoppingListening")
            /\ Cardinality(At(s, "readyForNextSession")) <= 1
            /\ Cardinality(At(s, "stopped")) <= 1
            /\ Before(s, "stoppingListening", "readyForNextSession")
            /\ Before(s, "readyForNextSession", "stopped")
            /\ \A i \in At(s, "stopped") : i = Len(events[s])

\* The symbolic codes of the engine errors that are not silence-class.
FaultCodes == {getErrorCode(error) : error \in ErrorInputs} \ SilenceCodes

\* An error event with this code is among the first i - 1 events of session s.
ErrorBefore(s, i, code) ==
    \E j \in 1..(i - 1) : events[s][j].type = "error" /\ events[s][j].code = code

\* The running main-thread step calls finishSession for the current session.
FinishCall == FinishStep /\ mainPc[1].sid = sessionId

C12_StopInIdleIsNoOp ==
    [][Stop /\ state = "IDLE" =>
        UNCHANGED <<state, sessionId, readyForNext, listening, speechRecognizer,
                    recognizers, queue, mainPc, events, calls, popups,
                    previousPartialResults, refused>>]_vars

\* stop() was called twice before any start(): nothing was emitted or posted.
C12_Witness ==
    /\ nOps = 2 /\ sessionId = 0 /\ state = "IDLE" /\ queue = <<>>
    /\ \A s \in 0..MaxOps : events[s] = <<>>

\* C13: start() that finds the engine unavailable or the permission missing
\* fails its call at once and changes nothing else: session id, state,
\* readiness, handle, instances, posted tasks and events stay as they were.
C13_RefusedStartChangesNothing ==
    [][StartRefused =>
        /\ UNCHANGED StartFrame
        /\ Len(refused') = Len(refused) + 1
        /\ refused'[Len(refused')] \in {"unavailable", "reject"}]_vars

\* Both kinds of refusal happened while session 1 was listening.
C13_Witness ==
    /\ refused = <<"unavailable", "reject">>
    /\ sessionId = 1 /\ state = "STARTED" /\ Kinds(1) = <<"startingListening", "started">>

\* C14: isListening() returns true exactly when the state is not IDLE.
C14_IsListeningIffNotIdle ==
    isListening <=> state # "IDLE"

\* The instances that were created and not destroyed.
Live == {r \in 1..Len(recognizers) : recognizers[r].live}

\* C15: at most one recognizer instance is live at any moment.
C15_SingleLiveRecognizer ==
    Cardinality(Live) <= 1

\* The transitions of the state diagram.
Transitions ==
    { <<"IDLE", "STARTING">>, <<"STARTING", "STARTED">>, <<"STARTING", "STOPPING">>,
      <<"STARTED", "STOPPING">>, <<"STOPPING", "IDLE">> }

\* C16: the state changes only along IDLE -> STARTING -> STARTED -> STOPPING ->
\* IDLE and STARTING -> STOPPING.  finishSession passes through STOPPING and
\* reaches IDLE inside one critical section, so a step to IDLE from a state that
\* may enter STOPPING counts as the two transitions it is.
C16_OnlyDiagramTransitions ==
    [][state' # state =>
        \/ <<state, state'>> \in Transitions
        \/ state' = "IDLE" /\ <<state, "STOPPING">> \in Transitions]_vars

\* A recreate task is posted and has not run.
RecreatePending == \E i \in 1..Len(queue) : queue[i].type = "recreate"

\* C17: the state is IDLE only once the torn-down recognizer has been replaced
\* (or its recreation has failed), never while the recreate task is pending.
C17_IdleOnlyAfterRecreate ==
    state = "IDLE" => ~RecreatePending

\* C18: every listeningState event carries a status field, which is "started"
\* iff the event's state is "started" and "stopped" iff it is "stopped".
C18_StatusDerivedFromState ==
    \A s \in Sessions : \A i \in 1..Len(events[s]) :
        LET e == events[s][i]
        IN  e.type = "listeningState" =>
                /\ e.status # None
                /\ e.status = "started" <=> e.state = "started"
                /\ e.status = "stopped" <=> e.state = "stopped"

\* The native codes the mapping is examined on: the nine known ones, their
\* neighbours on both sides (0, negative, 10..14) and a large one.
NativeCodes == ((-2)..14) \cup {9999}

\* The error code table: native code, symbolic code.
CodeTable ==
    { <<ERROR_NO_MATCH, "NO_MATCH">>, <<ERROR_SPEECH_TIMEOUT, "SPEECH_TIMEOUT">>,
      <<ERROR_NETWORK, "NETWORK">>, <<ERROR_NETWORK_TIMEOUT, "NETWORK_TIMEOUT">>,
      <<ERROR_AUDIO, "AUDIO">>, <<ERROR_CLIENT, "CLIENT">>,
      <<ERROR_INSUFFICIENT_PERMISSIONS, "INSUFFICIENT_PERMISSIONS">>,
      <<ERROR_RECOGNIZER_BUSY, "RECOGNIZER_BUSY">>, <<ERROR_SERVER, "SERVER">> }

Known == {row[1] : row \in CodeTable}

GenericMessage == "Didn't understand, please try again."

\* C19: the error mapping is total on the native codes: a known code maps to the
\* symbolic code of the table (and to a message of its own), any other integer
\* n to "UNKNOWN_n" with the generic message; the reason is "silence" exactly for
\* NO_MATCH and SPEECH_TIMEOUT and "error" otherwise.  Every error event an
\* engine error produced carries such a pair.
C19_ErrorMappingTotal ==
    /\ Cardinality(Known) = 9
    /\ \A row \in CodeTable :
            getErrorCode(row[1]) = row[2] /\ getErrorText(row[1]) # GenericMessage
    /\ \A n \in NativeCodes \ Known :
            /\ getErrorCode(n) = "UNKNOWN_" \o ToString(n)
            /\ getErrorText(n) = GenericMessage
    /\ \A n \in NativeCodes :
            ErrorReason(n) = IF getErrorCode(n) \in {"NO_MATCH", "SPEECH_TIMEOUT"}
                                THEN "silence" ELSE "error"
    /\ \A s \in Sessions : \A i \in 1..Len(events[s]) :
            LET e == events[s][i]
            IN  e.type = "error" /\ e.code \notin {"START_FAILED", "RECREATE_FAILED"} =>
                    \E n \in NativeCodes :
                        /\ e.code = (IF n \in Known
                                        THEN (CHOOSE row \in CodeTable : row[1] = n)[2]
                                        ELSE "UNKNOWN_" \o ToString(n))
                        /\ e.message = getErrorText(n)

\* onError(13), an unmapped code: the event says UNKNOWN_13 with the generic
\* message, and finishSession is about to be called with reason error.
C19_Witness ==
    /\ mainPc # <<>> /\ mainPc[1].k = "finish"
    /\ mainPc[1].errorCode = "UNKNOWN_13" /\ mainPc[1].reason = "error"
    /\ \E i \in At(mainPc[1].sid, "error") :
            /\ events[mainPc[1].sid][i].code = "UNKNOWN_13"
            /\ events[mainPc[1].sid][i].message = GenericMessage

\* The recreate task of session s has reported RECREATE_FAILED and has its
\* stopped event still to emit.
StoppedDue(s) == mainPc # <<>> /\ mainPc[1].k = "stopped" /\ mainPc[1].sid = s

\* C20: when recreating the recognizer fails, an error event RECREATE_FAILED
\* with the finished session id is emitted and the stopped event of that
\* session still follows: it is the next event of the session, and until it is
\* emitted the task that emits it is running.
C20_RecreateFailureStillStops ==
    /\ [][RunRecreate /\ recognizers' = recognizers =>
            /\ events'[Head(queue).sid] = Append(events[Head(queue).sid],
                    ErrorEvent("RECREATE_FAILED", "ex", Head(queue).sid))
            /\ mainPc' # <<>> /\ mainPc'[1].k = "stopped"
            /\ mainPc'[1].sid = Head(queue).sid]_vars
    /\ [](\A s \in Sessions : \A i \in 1..Len(events[s]) :
            events[s][i].type = "error" /\ events[s][i].code = "RECREATE_FAILED" =>
                /\ events[s][i].sessionId = s
                /\ IF i < Len(events[s])
                      THEN Kind(events[s][i + 1]) = "stopped"
                      ELSE StoppedDue(s))

\* Session 1 ended, its recreation failed, and it was closed all the same.
C20_Witness ==
    \E i \in 1..(Len(events[1]) - 1) :
        /\ events[1][i].code = "RECREATE_FAILED"
        /\ Kind(events[1][i + 1]) = "stopped" /\ events[1][i + 1].sessionId = 1
        /\ ~Emitted(1, "readyForNextSession")

\* C21: partialResults and segmentResults events of a session come after its
\* started event and before its stoppingListening event.
C21_DataBetweenStartedAndStopping ==
    \A s \in Sessions : \A k \in {"partialResults", "segmentResults"} :
        Before(s, "started", k) /\ Before(s, k, "stoppingListening")

\* A started event of session s is among its first i - 1 events.
StartedBefore(s, i) == \E j \in At(s, "started") : j < i

\* A start() call is resolved in this step, other than by the popup's result.
InlineResolve(s) ==
    /\ Len(calls'[s]) = Len(calls[s]) + 1
    /\ calls'[s][Len(calls'[s])] = "resolve"
    /\ ~ActivityResult

\* C22: within a session, started precedes every error event, every
\* partialResults event and every delivery of the final result to the start()
\* call: no error event tagged with S is emitted unless started(S) has been.
C22_StartedPrecedesAll ==
    /\ [](\A s \in Sessions : \A k \in {"error", "partialResults"} :
            \A i \in At(s, k) : StartedBefore(s, i))
    /\ [][\A s \in Sessions : InlineResolve(s) => Emitted(s, "started")']_vars

\* The error events the plugin itself emits, not onError.
LifecycleFailures == {"START_FAILED", "RECREATE_FAILED"}

\* C22, amended: within a session, started precedes every error event the
\* engine's onError produced, every partialResults event and every resolution of
\* the inline start() call.  The error events without a started before them are
\* START_FAILED, of a session that never starts, and a RECREATE_FAILED after it.
C22_StartedPrecedesEngineEvents ==
    /\ [](\A s \in Sessions : \A i \in 1..Len(events[s]) :
            LET e == events[s][i]
            IN  /\ e.type = "partialResults" => StartedBefore(s, i)
                /\ e.type = "error" =>
                      \/ e.code \notin LifecycleFailures /\ StartedBefore(s, i)
                      \/ /\ e.code \in LifecycleFailures
                         /\ \/ StartedBefore(s, i)
                            \/ /\ ~Emitted(s, "started")
                               /\ ErrorBefore(s, i + 1, "START_FAILED"))
    /\ [][\A s \in Sessions : InlineResolve(s) => Emitted(s, "started")']_vars

\* Session 1 failed to start and has its START_FAILED error with no started
\* event; session 2 started and then got an engine error.
C22_Witness ==
    /\ Emitted(1, "error") /\ ~Emitted(1, "started")
    /\ \E i \in At(2, "error") :
            events[2][i].code \notin LifecycleFailures /\ StartedBefore(2, i)

\* C23: readiness is true only while the slot holds a recognizer, and a
\* readyForNextSession event is emitted only in a step that ends in such a state.
C23_ReadyImpliesHandle ==
    /\ [](readyForNext => speechRecognizer # NullHandle)
    /\ [][\A s \in Sessions :
            At(s, "readyForNextSession")' # At(s, "readyForNextSession") =>
                readyForNext' /\ speechRecognizer' # NullHandle]_vars

\* The session is closed: its stopped event was emitted.
Closed(s) == Emitted(s, "stopped")

\* C24: the start() call of an inline session is completed exactly once: never
\* twice, and once by the time the session is closed.
C24_CallCompletedOnce ==
    \A s \in Sessions :
        /\ Len(calls[s]) <= 1
        /\ Closed(s) => Len(calls[s]) = 1

\* The fields the lock is documented to guard.
GuardedFields == {"state", "sessionId", "readyForNext", "speechRecognizer"}

\* C25: a thread about to write state, sessionId, readyForNext or the
\* recognizer handle holds the lock, in the posted begin, recreate and load
\* tasks as everywhere else.
C25_WritesUnderLock ==
    \A t \in Threads :
        (Busy(t) /\ Instr(t).k = "write" /\ Instr(t).f \in GuardedFields)
            => lockOwner = t

\* Thread t stands at lock.lock() and cannot pass.
Blocked(t) == Busy(t) /\ Instr(t).k = "lock" /\ ~CanAcquire(t)

\* C26: no interleaving of start()/stop() with the main-thread tasks and
\* callbacks deadlocks: a thread waiting at the lock waits for another thread
\* that holds it and can itself take a step, the lock is never left held by a
\* thread that has returned, and while any thread is inside an operation some
\* step is possible.  The second lock() of the start-failure path passes.
C26_NoDeadlock ==
    /\ \A t \in Threads :
        /\ Blocked(t) => /\ lockOwner \in Threads \ {t}
                         /\ Busy(lockOwner)
                         /\ ~Blocked(lockOwner)
        /\ lockOwner = t => Busy(t)
    /\ (lockOwner = NoThread) <=> (holdCount = 0)
    /\ (\E t \in Threads : Busy(t))
            => ENABLED (LockAcquire \/ LockRelease \/ LockExec)

\* The begin task re-entered the lock in finishSession while start() or stop()
\* waits for it.
C26_Witness ==
    /\ lockOwner = "main" /\ holdCount = 2
    /\ threadPc["main"].op \in {BeginFailsCode(f) : f \in FinishCodes}
    /\ Blocked("plugin")

\* start() has raised sessionId and not yet emitted startingListening.
InStartStep ==
    /\ Busy("plugin") /\ threadPc["plugin"].op = StartCode
    /\ Instr("plugin").line \in {97, 98, 105}

\* C27: sessionId++, state := STARTING and the emission of startingListening
\* are one step for every other operation: while start() is between them no
\* other thread is inside a locked section, state is read and written only
\* with the lock held, and the event is emitted with the id just raised and
\* the state STARTING.
C27_StartStepAtomic ==
    /\ InStartStep => lockOwner = "plugin"
    /\ \A t \in Threads :
        (Busy(t) /\ Instr(t).f = "state") => lockOwner = t
    /\ (InStartStep /\ Instr("plugin").line \in {98, 105}) => state = "STARTING"
    /\ (InStartStep /\ Instr("plugin").line = 105)
            => threadPc["plugin"].local = sessionId

\* start() is about to emit while a main-thread operation waits at the lock.
C27_Witness ==
    /\ InStartStep /\ Instr("plugin").line = 105
    /\ Blocked("main")

\* The begin task of this step failed: it rejected the call of its session.
StartFails ==
    /\ RunBegin
    /\ calls'[Head(queue).sid] = Append(calls[Head(queue).sid], "reject")

\* Session s has the events of a failed start of the current session.
StartFailed(s) ==
    \E i \in At(s, "stoppingListening") : events[s][i].errorCode = "START_FAILED"

\* The recreate task of session s is posted or running, with these arguments.
RecreateDue(s, reason, errorCode) ==
    \/ \E i \in 1..Len(queue) : queue[i] = RecreateTask(s, reason, errorCode)
    \/ StoppedDue(s) /\ mainPc[1].reason = reason /\ mainPc[1].errorCode = errorCode

\* C28: when startListening throws for the current session S, still STARTING,
\* the task emits error(START_FAILED, S) and then stoppingListening(error,
\* START_FAILED), rejects the start() call and posts the recreate task; the
\* session never emits started and its stopped event, (error, START_FAILED), is
\* emitted or due, and is its last event.
C28_StartFailureClosesSession ==
    /\ [][StartFails /\ Head(queue).sid = sessionId /\ state = "STARTING" =>
            LET S == Head(queue).sid
            IN  /\ events'[S] = events[S] \o
                      << ErrorEvent("START_FAILED", "ex", S),
                         ListeningEvent("stoppingListening", S, "error",
                                        "START_FAILED", None) >>
                /\ calls'[S] = Append(calls[S], "reject")
                /\ queue' = Append(Tail(queue), RecreateTask(S, "error", "START_FAILED"))
                /\ state' = "IDLE"]_vars
    /\ [](\A s \in Sessions : StartFailed(s) =>
            /\ ~Emitted(s, "started")
            /\ Cardinality(At(s, "stopped")) <= 1
            /\ \A i \in At(s, "stopped") :
                    /\ i = Len(events[s])
                    /\ events[s][i] = ListeningEvent("stopped", s, "error",
                                                     "START_FAILED", "stopped")
            /\ Emitted(s, "stopped") \/ RecreateDue(s, "error", "START_FAILED"))

\* Session 1 failed to start and was closed with (error, START_FAILED).
C28_Witness ==
    /\ StartFailed(1) /\ calls[1] = <<"reject">>
    /\ Kinds(1) = <<"startingListening", "error", "stoppingListening",
                    "readyForNextSession", "stopped">>

\* cancel() threw in the teardown of this step's finishSession.
TeardownThrows ==
    \/ FinishStep /\ nOps' = nOps + 1
    \/ RunBegin /\ nOps' = nOps + 2

\* C29: an exception of cancel() / destroy() in finishSession's teardown is
\* swallowed: the handle is cleared, the state becomes IDLE, readiness false,
\* the recreate task is posted, and no error event reports the failure.
C29_TeardownFailureSwallowed ==
    [][TeardownThrows =>
        /\ speechRecognizer' = NullHandle
        /\ state' = "IDLE" /\ readyForNext' = FALSE /\ listening' = FALSE
        /\ queue' # <<>> /\ queue'[Len(queue')].type = "recreate"
        /\ Len(queue') = Len(queue) + (IF RunBegin THEN 0 ELSE 1)
        /\ \A s \in Sessions : \A i \in (Len(events[s]) + 1)..Len(events'[s]) :
                events'[s][i].type = "error" => events'[s][i].code = "START_FAILED"]_vars

\* finishSession ran for the current session and its teardown failed: the slot
\* is empty and the recreate task posted, while the instance is still alive.
C29_Witness ==
    /\ speechRecognizer = NullHandle /\ state = "IDLE" /\ ~readyForNext
    /\ RecreatePending
    /\ \E r \in Delivering : recognizers[r].lsid = sessionId

\* Session s has been finished already.
AlreadyFinished(s) ==
    \/ Emitted(s, "stopped")
    \/ \E i \in 1..Len(queue) : queue[i].type = "recreate" /\ queue[i].sid = s

\* C30: finishSession for the current session, called again after that session
\* was finished and the state is IDLE, is a silent no-op.
C30_RepeatedFinishIsNoOp ==
    [][FinishCall /\ state = "IDLE" /\ AlreadyFinished(sessionId) =>
        UNCHANGED <<events, state, readyForNext, speechRecognizer, recognizers,
                    queue>>]_vars

\* The number of stoppingListening events of session s.
Stoppings(s) == Cardinality(At(s, "stoppingListening"))

\* finishSession runs in this step for session s, the current one.
FinishesCurrent(s) ==
    /\ s = sessionId
    /\ \/ FinishCall /\ mainPc[1].sid = s
       \/ StartFails /\ Head(queue).sid = s

\* The step law of C31: finishSession for the current session emits one
\* stoppingListening when the state at entry is not STOPPING, none when it is.
C31_FinishEmitsUnlessStopping ==
    [][\A s \in Sessions :
         FinishesCurrent(s) =>
            Stoppings(s)' = Stoppings(s) + (IF state # "STOPPING" THEN 1 ELSE 0)]_vars

\* C31: finishSession for the current session emits stoppingListening iff the
\* state at entry is not STOPPING, so a session the user stopped at most once
\* has at most one stoppingListening event.
C31_AtMostOneStopping ==
    \A s \in Sessions :
        Cardinality(UserStops(s)) <= 1 => Stoppings(s) <= 1

\* C32: a stop() issued while the state is already STOPPING leaves state,
\* sessionId, readyForNext and the recognizer handle unchanged; all it does is
\* emit stoppingListening(userStop) for the current session again and post one
\* more stop task, and that task, like every stop task, emits nothing and posts
\* nothing, so no stopped event comes of it.
C32_SecondStopOnlyReemits ==
    [][/\ (Stop /\ state = "STOPPING") =>
            /\ UNCHANGED <<state, sessionId, readyForNext, speechRecognizer, recognizers,
                           listening, mainPc, calls, popups, previousPartialResults>>
            /\ events' = Emit(events, ListeningEvent("stoppingListening", sessionId,
                                                     "userStop", None, None))
            /\ queue' = Append(queue, StopTask)
       /\ RunStop =>
            /\ UNCHANGED <<state, sessionId, readyForNext, speechRecognizer, recognizers,
                           events, mainPc, calls>>
            /\ queue' = Tail(queue)]_vars

\* stop() was called twice before the begin task of session 1 ran: the second
\* call found the state STOPPING.
C32_Witness ==
    /\ sessionId = 1 /\ state = "STOPPING"
    /\ \E i \in 1..Len(queue) : queue[i].type = "begin"
    /\ Cardinality(UserStops(1)) = 2

\* The events this step emits for session s are all of a kind in ks.
EmitsOnly(s, ks) ==
    /\ IsPrefix(events[s], events'[s])
    /\ \A i \in (Len(events[s]) + 1)..Len(events'[s]) : Kind(events'[s][i]) \in ks

\* C33: onSegmentResults and onEndOfSegmentedSession only emit their own events:
\* they do not call finishSession (nothing is left to run, nothing is posted, no
\* call is completed) and leave state, sessionId, readyForNext, the recognizer
\* handle and previousPartialResults unchanged.
C33_SegmentCallbacksPassThrough ==
    [][(OnSegmentResults \/ OnEndOfSegmentedSession) =>
            /\ UNCHANGED <<state, sessionId, readyForNext, speechRecognizer, recognizers,
                           listening, previousPartialResults, queue, mainPc, calls, popups>>
            /\ \A s \in 0..MaxOps :
                 EmitsOnly(s, {"segmentResults", "endOfSegmentedSession"})]_vars

\* Both callbacks were delivered in a started session, which is still STARTED.
C33_Witness ==
    /\ state = "STARTED" /\ sessionId = 1
    /\ Emitted(1, "segmentResults") /\ Emitted(1, "endOfSegmentedSession")

\* C34: onPartialResults emits a partialResults event iff its merged list is
\* non-empty and differs from previousPartialResults, and then
\* previousPartialResults becomes that list; nothing else writes
\* previousPartialResults, so it is the list of the last event the partial
\* callback emitted and two such events in a row never carry equal lists.
C34_PartialDeduplicated ==
    [][/\ \A r \in 1..Len(recognizers), b \in PartialBundles :
            OnPartialResultsAt(r, b) =>
                LET m == JSArray(buildMatchesWithUnstableText(b))
                IN  IF m # <<>> /\ m # previousPartialResults
                       THEN /\ events' = Emit(events, DataEvent("partialResults", m,
                                                               recognizers[r].lsid))
                            /\ previousPartialResults' = m
                       ELSE UNCHANGED <<events, previousPartialResults>>
       /\ ~OnPartialResults => UNCHANGED previousPartialResults]_vars

\* The partial callback was delivered three times in the session that is still
\* running: it emitted twice and kept silent once.
C34_Witness ==
    /\ state = "STARTED" /\ mainPc = <<>>
    /\ Len(partialCalls[sessionId]) = 3
    /\ Cardinality(At(sessionId, "partialResults")) = 2
    /\ previousPartialResults = events[sessionId][Len(events[sessionId])].matches

\* The cases in which the merge has nothing to add to the bundle b.
NothingToMerge(b) ==
    \/ IsNull(b.matches)
    \/ Val(b.matches) = <<>>
    \/ IsNull(b.unstable)
    \/ Trim(Val(b.unstable)) = <<>>
    \/ IsNull(Val(b.matches)[1])
    \/ Trim(Val(Val(b.matches)[1])) = Trim(Val(b.unstable))
    \/ EndsWith(Trim(Val(Val(b.matches)[1])), <<" ">> \o Trim(Val(b.unstable)))

\* C35: the merge returns the list as it is when the list is null or empty, the
\* fragment absent or blank, the first match null, or the trimmed first match
\* equal to the trimmed fragment or ending with a space and the fragment;
\* otherwise a list of the same length whose first element is trimmed first
\* match, space, trimmed fragment and whose other elements are the same.  The
\* list of the bundle is never changed.
C35_MergeUnstableText ==
    /\ mergeList = mergeIn.matches
    /\ IF NothingToMerge(mergeIn)
          THEN mergeOut = mergeIn.matches
          ELSE /\ ~IsNull(mergeOut)
               /\ Len(Val(mergeOut)) = Len(Val(mergeIn.matches))
               /\ Val(mergeOut)[1] =
                     Some(Trim(Val(Val(mergeIn.matches)[1])) \o <<" ">>
                            \o Trim(Val(mergeIn.unstable)))
               /\ \A i \in 2..Len(Val(mergeOut)) :
                     Val(mergeOut)[i] = Val(mergeIn.matches)[i]

\* "ab" and the fragment " b ": "ab" ends with b but not with a space and b, so
\* the fragment is appended; the second match is kept.
C35_Witness ==
    /\ mergeIn = Bundle(Some(<<Some(<<"a", "b">>), Null>>), Some(<<" ", "b", " ">>))
    /\ mergeOut = Some(<<Some(<<"a", "b", " ", "b">>), Null>>)

FinishReasons == {"results", "silence", "error"}

C38_ListeningImpliesHandle ==
    listening => speechRecognizer # NullHandle

\* The step laws of C39: a popup start() posts no begin task; the activity
\* result only completes the call and clears the listening flag; a started
\* event is emitted only by the begin task of its session, and finishSession is
\* entered only for the session of a begin task or of a started listener.
C39_PopupStepLaws ==
    [][/\ (Start /\ popups' # popups) =>
            /\ state' = "STARTING" /\ queue' = queue
            /\ events' = Emit(events, ListeningEvent("startingListening", sessionId',
                                                     "userStart", None, None))
       /\ ActivityResult =>
            /\ UNCHANGED <<state, sessionId, readyForNext, speechRecognizer, recognizers,
                           queue, mainPc, events, previousPartialResults>>
            /\ listening' = FALSE
            /\ \E c \in popups : /\ popups' = popups \ {c}
                                 /\ Len(calls'[c]) = Len(calls[c]) + 1
       /\ \A s \in popups :
            /\ At(s, "started")' = At(s, "started")
            /\ At(s, "stopped")' = At(s, "stopped")
            /\ mainPc' # <<>> => mainPc'[1].sid # s]_vars

\* C39: a session started with the popup option is taken to STARTING and stays
\* there: while it is the current session and stop() has not been called the
\* state is STARTING, before and after the activity result is delivered, and it
\* has no started, stoppingListening or stopped event.
C39_PopupStaysStarting ==
    \A s \in popups :
        /\ ~Emitted(s, "started") /\ ~Emitted(s, "stopped")
        /\ (s = sessionId /\ UserStops(s) = {}) =>
                state = "STARTING" /\ ~Emitted(s, "stoppingListening")

\* C40: previousPartialResults is one field for all sessions and neither
\* start() nor finishSession (nor any posted task) resets it: a partial callback
\* of a session that has emitted no partial yet, whose list equals the list last
\* emitted in an earlier session, emits nothing.
C40_SnapshotSharedAcrossSessions ==
    [][/\ (Start \/ Stop \/ RunBegin \/ FinishStep \/ RunRecreate \/ EmitStopped \/ RunStop)
            => UNCHANGED previousPartialResults
       /\ \A r \in 1..Len(recognizers), b \in PartialBundles :
            (/\ OnPartialResultsAt(r, b)
             /\ JSArray(buildMatchesWithUnstableText(b)) = previousPartialResults
             /\ partialCalls[recognizers[r].lsid] = <<>>)
                => events' = events]_vars

\* Session 1 emitted a partial; session 2 was then started and its first
\* partial callback, with the same list, emitted nothing.
C40_Witness ==
    /\ sessionId = 2 /\ state = "STARTED"
    /\ previousPartialResults # <<>>
    /\ \E i \in At(1, "partialResults") : events[1][i].matches = previousPartialResults
    /\ partialCalls[2] = <<previousPartialResults>>
    /\ ~Emitted(2, "partialResults")
====
